---- MODULE Spec2Model ----
(***************************************************************************)
(* Model of programmer.py, the Meetjestad board bootstrap programmer.      *)
(*                                                                         *)
(* One run of the program is one process: it parses its arguments, detects *)
(* the dfu-util version, and then either writes the unprotected option     *)
(* bytes (--unprotect) or generates the flash block, programs and verifies *)
(* it, programs the protected option bytes and registers the device.       *)
(* Every external process the program starts (dfu-util, ttn-lw-cli) is a   *)
(* step of the model whose exit status and output are chosen by the        *)
(* environment.  The device keeps its flash and option bytes across runs.  *)
(*                                                                         *)
(* Three specifications: Spec, successive runs against one device, with    *)
(* temporary files only; FilesSpec, one run with the file name options, on *)
(* a fresh or a provisioned device; CalcSpec, the encoders and the         *)
(* alignment applied on their own to inputs from bounded sets.             *)
(*                                                                         *)
(* Numbers: TLC's integers are 32-bit signed, so a 32-bit word (an option  *)
(* word, the CRC) is kept as a pair of 16-bit halves and a 64-bit EUI as   *)
(* its eight bytes.  Byte strings are sequences over 0..255.               *)
(***************************************************************************)
EXTENDS Integers, Sequences, FiniteSets, TLC

(***************************************************************************)
(* Bounds of the model.                                                    *)
(***************************************************************************)
\* runs of the program against the one device
MaxRuns == 2
\* station ids are 42 .. 42 + MaxId
MaxId == 0
\* application keys are KeyOf(0) .. KeyOf(MaxKey)
MaxKey == 1
\* offsets 0 .. MaxOffset are aligned on their own
MaxOffset == 300
\* sequences of at most MaxWords option words are encoded on their own
MaxWords == 2

(***************************************************************************)
(* Constants of the program.                                               *)
(***************************************************************************)
CRC_SIZE == 4
KEY_SIZE == 16
DFU_FLASH_ALT == "0"
DFU_OPTION_ALT == "1"
FLASH_SIZE == 192 * 1024
FLASH_START_ADDRESS == 134217728
FLASH_ALIGN == 128
FLASH_PROTECT_SECTOR_SIZE == 4096
\* int(size / sector) - 1: the index of the last sector
ProtectedSector(size, sector) == (size \div sector) - 1
PROTECTED_SECTOR == ProtectedSector(FLASH_SIZE, FLASH_PROTECT_SECTOR_SIZE)
OPTION_START_ADDRESS == 536346624
\* struct.pack('>Q', APP_EUI), APP_EUI = 0x70B3D57ED00003BA
APP_EUI == <<112, 179, 213, 126, 208, 0, 3, 186>>
APP_ID == "meet-je-stad"
FREQUENCY_PLAN == "EU_863_870_TTN"
LORAWAN_VERSION == "MAC_V1_0"
LORAWAN_PHY_VERSION == "PHY_V1_0"
\* the exit status of dfu-util 0.9 that program_dfu may ignore
LEGACY_RESET_STATUS == 74

(***************************************************************************)
(* Bit operations on naturals below 2^16.                                  *)
(***************************************************************************)
RECURSIVE BitOr(_, _)
BitOr(a, b) ==
    IF a = 0 THEN b
    ELSE IF b = 0 THEN a
    ELSE 2 * BitOr(a \div 2, b \div 2)
         + (IF a % 2 = 1 \/ b % 2 = 1 THEN 1 ELSE 0)

\* a ^ b on 16-bit values, the sixteen bits written out
BitXor(a, b) ==
    LET X(i) == IF (a \div 2 ^ i) % 2 # (b \div 2 ^ i) % 2 THEN 2 ^ i ELSE 0
    IN  ((X(0) + X(1) + X(2) + X(3)) + (X(4) + X(5) + X(6) + X(7)))
        + ((X(8) + X(9) + X(10) + X(11)) + (X(12) + X(13) + X(14) + X(15)))

Bit(n, k) == (n \div (2 ^ k)) % 2

(***************************************************************************)
(* 32-bit words as two 16-bit halves.                                      *)
(***************************************************************************)
Word(h, l) == [hi |-> h, lo |-> l]

WordOr(x, y) == Word(BitOr(x.hi, y.hi), BitOr(x.lo, y.lo))

\* 1 << n, for n in 0..31
Shl1(n) == IF n < 16 THEN Word(0, 2 ^ n) ELSE Word(2 ^ (n - 16), 0)

WordBit(w, k) == IF k < 16 THEN Bit(w.lo, k) ELSE Bit(w.hi, k - 16)

(***************************************************************************)
(* The option byte presets.                                                *)
(***************************************************************************)
\* 0x807000AA, 0x00000000, 0x0000
OPTION_BYTES_DEFAULT == <<Word(32880, 170), Word(0, 0), Word(0, 0)>>

\* word 0 with 0x60000 set
OPTION_BYTES_UNPROTECTED ==
    << WordOr(OPTION_BYTES_DEFAULT[1], Word(6, 0)),
       OPTION_BYTES_DEFAULT[2],
       OPTION_BYTES_DEFAULT[3] >>

\* sector 31 falls between the two words
OptionBytesProtected_Gap(S) ==
    << OPTION_BYTES_UNPROTECTED[1],
       WordOr(OPTION_BYTES_UNPROTECTED[2],
              IF S < 31 THEN Shl1(S) ELSE Word(0, 0)),
       WordOr(OPTION_BYTES_UNPROTECTED[3],
              IF S >= 32 THEN Shl1(S - 32) ELSE Word(0, 0)) >>

\* the protected preset for a last sector S
OptionBytesProtected(S) ==
    << OPTION_BYTES_UNPROTECTED[1],
       WordOr(OPTION_BYTES_UNPROTECTED[2],
              IF S <= 31 THEN Shl1(S) ELSE Word(0, 0)),
       WordOr(OPTION_BYTES_UNPROTECTED[3],
              IF S >= 32 THEN Shl1(S - 32) ELSE Word(0, 0)) >>

OPTION_BYTES_PROTECTED == OptionBytesProtected(PROTECTED_SECTOR)

(***************************************************************************)
(* struct.pack and the encoders.                                           *)
(***************************************************************************)
\* big-endian, w bytes
RECURSIVE PackBE(_, _)
PackBE(n, w) ==
    IF w = 0 THEN << >> ELSE Append(PackBE(n \div 256, w - 1), n % 256)

\* little-endian 16 bit: struct.pack('<H', hw)
PackLE16(hw) == << hw % 256, hw \div 256 >>

\* struct.pack('<HH', hw, hw ^ 0xffff)
\* the half word twice, without the complement
PackHalfWord_Repeated(hw) == PackLE16(hw) \o PackLE16(hw)

PackHalfWord(hw) == PackLE16(hw) \o PackLE16(BitXor(hw, 65535))

RECURSIVE encode_option_bytes(_)
encode_option_bytes(words) ==
    IF words = << >> THEN << >>
    ELSE PackHalfWord(Head(words).lo) \o PackHalfWord(Head(words).hi)
         \o encode_option_bytes(Tail(words))

\* the words an option image holds (what the device reads from it)
DecodeOptionWord(img, i) ==
    Word(img[8 * i + 5] + 256 * img[8 * i + 6],
         img[8 * i + 1] + 256 * img[8 * i + 2])

(***************************************************************************)
(* CRC-32C (Castagnoli), reflected form, on a 32-bit word kept as halves.  *)
(***************************************************************************)
\* 0x82F63B78
Crc32cPoly == Word(33526, 15224)

WordXor(x, y) == Word(BitXor(x.hi, y.hi), BitXor(x.lo, y.lo))

\* one step: shift right, and xor the polynomial in when a 1 fell out
CrcShift(c) ==
    LET s == Word(c.hi \div 2, (c.lo \div 2) + 32768 * (c.hi % 2))
    IN  IF c.lo % 2 = 1 THEN WordXor(s, Crc32cPoly) ELSE s

\* one byte: eight shifts, each computed before the next
CrcByte(c, b) ==
    LET s0 == Word(c.hi, BitXor(c.lo, b))
        s1 == CrcShift(s0)
        s2 == CrcShift(s1)
        s3 == CrcShift(s2)
        s4 == CrcShift(s3)
        s5 == CrcShift(s4)
        s6 == CrcShift(s5)
        s7 == CrcShift(s6)
        s8 == CrcShift(s7)
    IN  << s0, s1, s2, s3, s4, s5, s6, s7, s8 >>[9]

\* the bytes a .. b of a string, a <= b, in order and taken half by half, the
\* first half computed before the second, so that the evaluation nests only as
\* deep as the logarithm of the length
RECURSIVE CrcRange(_, _, _, _)
CrcRange(c, bytes, a, b) ==
    IF a = b THEN CrcByte(c, bytes[a])
    ELSE LET m == (a + b) \div 2
             left == CrcRange(c, bytes, a, m)
         IN  << c, left, CrcRange(left, bytes, m + 1, b) >>[3]

CrcBytes(c, bytes) == IF bytes = << >> THEN c ELSE CrcRange(c, bytes, 1, Len(bytes))

\* crc32c.crc32c(bytes), as the four bytes of struct.pack('>I', crc)
crc32c(bytes) ==
    LET c == CrcBytes(Word(65535, 65535), bytes)
        f == WordXor(c, Word(65535, 65535))
    IN  PackBE(f.hi, 2) \o PackBE(f.lo, 2)

(***************************************************************************)
(* The flash block: struct.pack(">IBBQQ16sHHHI", crc, board_id,            *)
(* board_version, app_eui, dev_eui, app_key, segment_size, segment_type,   *)
(* total_size, magic).                                                     *)
(***************************************************************************)
\* struct.calcsize(">BBQQ16sHH")
SEGMENT_SIZE == 1 + 1 + 8 + 8 + KEY_SIZE + 2 + 2
\* struct.calcsize(">IBBQQ16sHHHI")
BLOCK_SIZE == 4 + SEGMENT_SIZE + 2 + 4
\* 0x0201
SEGMENT_TYPE == 513
\* struct.pack('>I', 0xB6E03B02)
MAGIC == <<182, 224, 59, 2>>

\* total_size packed as four bytes instead of two
PackBlock_WideTotal(crc, board_id, board_version, app_eui, dev_eui, key) ==
    crc \o PackBE(board_id, 1) \o PackBE(board_version, 1)
        \o app_eui \o PackBE(dev_eui, 8) \o key
        \o PackBE(SEGMENT_SIZE, 2) \o PackBE(SEGMENT_TYPE, 2)
        \o PackBE(BLOCK_SIZE, 4) \o MAGIC

\* struct.pack(BLOCK_FORMAT, *contents), crc given as its four bytes
PackBlock(crc, board_id, board_version, app_eui, dev_eui, key) ==
    crc \o PackBE(board_id, 1) \o PackBE(board_version, 1)
        \o app_eui \o PackBE(dev_eui, 8) \o key
        \o PackBE(SEGMENT_SIZE, 2) \o PackBE(SEGMENT_TYPE, 2)
        \o PackBE(BLOCK_SIZE, 2) \o MAGIC

\* the checksum taken over the whole zero-crc serialization
generate_flash_CrcOverAll(app_eui, dev_eui, key, board_id, board_version) ==
    LET binary_before_crc ==
            PackBlock(<<0, 0, 0, 0>>, board_id, board_version, app_eui, dev_eui, key)
        crc == crc32c(binary_before_crc)
    IN  PackBlock(crc, board_id, board_version, app_eui, dev_eui, key)

generate_flash(app_eui, dev_eui, key, board_id, board_version) ==
    LET binary_before_crc ==
            PackBlock(<<0, 0, 0, 0>>, board_id, board_version, app_eui, dev_eui, key)
        crc == crc32c(SubSeq(binary_before_crc, CRC_SIZE + 1, Len(binary_before_crc)))
    IN  PackBlock(crc, board_id, board_version, app_eui, dev_eui, key)

(***************************************************************************)
(* Text: the output of an external process is a sequence of characters or  *)
(* of words, so that a prefix or substring test is computed on it.         *)
(***************************************************************************)
\* s.startswith(p)
StartsWith(s, p) == Len(s) >= Len(p) /\ SubSeq(s, 1, Len(p)) = p

\* p in s
Contains(s, p) ==
    \E i \in 0..(Len(s) - Len(p)) : SubSeq(s, i + 1, i + Len(p)) = p

HexDigits ==
    <<"0", "1", "2", "3", "4", "5", "6", "7", "8", "9", "a", "b", "c", "d", "e", "f">>

\* bytes.hex()
RECURSIVE Hex(_)
Hex(bytes) ==
    IF bytes = << >> THEN << >>
    ELSE << HexDigits[(Head(bytes) \div 16) + 1], HexDigits[(Head(bytes) % 16) + 1] >>
         \o Hex(Tail(bytes))

\* '{}'.format(n), n >= 0
RECURSIVE Decimal(_)
Decimal(n) ==
    IF n < 10 THEN << HexDigits[n + 1] >>
    ELSE Append(Decimal(n \div 10), HexDigits[(n % 10) + 1])

\* DEVICE_ID_TEMPLATE.format(id)
DeviceId(id) == <<"meetstation-">> \o Decimal(id)

\* the EUI packed little-endian, '<Q'
hex_eui_LittleEndian(eui) == Hex([i \in 1..8 |-> PackBE(eui, 8)[9 - i]])

\* hex_eui(eui) of register_device
hex_eui(eui) == Hex(PackBE(eui, 8))

(***************************************************************************)
(* The board registry.                                                     *)
(***************************************************************************)
BoardInfo(id, version) == [board_id |-> id, board_version |-> version]

BOARDS ==
    [b \in {"mjs2020-proto2", "mjs2020-proto3", "mjs2020-proto4", "other"} |->
        CASE b = "mjs2020-proto2" -> BoardInfo(2, 1)
          [] b = "mjs2020-proto3" -> BoardInfo(2, 2)
          [] b = "mjs2020-proto4" -> BoardInfo(2, 3)
          [] b = "other" -> BoardInfo(0, 0)]

(***************************************************************************)
(* Inputs: the command line, the key material, and what the external       *)
(* processes answer.                                                       *)
(***************************************************************************)
Ids == 42..(42 + MaxId)

\* secrets.token_bytes(KEY_SIZE): one of a few 16-byte strings
KeyOf(n) == [i \in 1..KEY_SIZE |-> (n * KEY_SIZE + i) % 256]
Keys == {KeyOf(n) : n \in 0..MaxKey}

\* the boards the runs are started for (argparse accepts every name of BOARDS)
BoardNames == {"mjs2020-proto3", "other"}

\* --flash-filename and --option-filename; "" when the option is not given
FlashFilenames == {"", "flash.bin"}
OptionFilenames == {"", "option.bin"}

\* command lines without and with the file name options
Args ==
    [board : BoardNames, id : Ids,
     skip_flash : BOOLEAN, skip_register : BOOLEAN, unprotect : BOOLEAN,
     flash_filename : {""}, option_filename : {""}]

ArgsWithFiles ==
    [board : BoardNames, id : Ids,
     skip_flash : BOOLEAN, skip_register : BOOLEAN, unprotect : BOOLEAN,
     flash_filename : FlashFilenames, option_filename : OptionFilenames]

\* exit statuses of an external process: success, a general failure, and 74
ExitCodes == {0, 1, LEGACY_RESET_STATUS}

\* stdout of dfu-util --version, as characters
VersionOutputs ==
    { <<"d", "f", "u", "-", "u", "t", "i", "l", " ", "0", ".", "9">>,
      <<"d", "f", "u", "-", "u", "t", "i", "l", " ", "0", ".", "1", "0">> }

\* 'dfu-util 0.9'
LegacyPrefix == <<"d", "f", "u", "-", "u", "t", "i", "l", " ", "0", ".", "9">>

\* b'dfu-util: Error during download get_status', as words
LegacyResetWords == <<"dfu-util:", "Error", "during", "download", "get_status">>

\* combined stdout and stderr of a dfu-util download, as words
DownloadOutputs ==
    { <<"Download", "done.">>,
      <<"Downloading", "dfu-util:", "Error", "during", "download", "get_status">>,
      <<"dfu-util:", "Error", "during", "download">> }

(***************************************************************************)
(* Files.  A file system is a set of pairs of a path and the bytes the     *)
(* file holds.  tempfile picks a name nobody uses; the model writes it     *)
(* with X's for the random part.                                           *)
(***************************************************************************)
NamedTemporaryFile == "/tmp/dfu-programmerXXXXXXXX.bin"
TemporaryDirectory == "/tmp/dfu-programmerXXXXXXXX"
\* os.path.join(d, 'verify.bin')
VerifyFilename == "/tmp/dfu-programmerXXXXXXXX/verify.bin"

\* program_dfu, line 165: a file name that is None or empty is not one
IsTemporary(filename) == filename = ""

\* program_dfu, lines 165-168: the file the payload is staged in
StagingFile(filename) == IF IsTemporary(filename) THEN NamedTemporaryFile ELSE filename

\* open(path, 'wb'), write, flush
WriteFile(fsys, path, bytes) == {e \in fsys : e[1] # path} \cup {<<path, bytes>>}

ReadFile(fsys, path) == (CHOOSE e \in fsys : e[1] = path)[2]

RemoveFile(fsys, path) == {e \in fsys : e[1] # path}

\* the temporary file outlives the with block (delete=False)
CloseStaging_Kept(fsys, path, temporary) == fsys

\* leaving "with f": a NamedTemporaryFile(delete=True) is removed on close
CloseStaging(fsys, path, temporary) == IF temporary THEN RemoveFile(fsys, path) ELSE fsys

\* leaving "with tempfile.TemporaryDirectory(...)"
CleanupDirectory(ds, dir) == ds \ {dir}

\* a temporary made by a call
Made(path, by, alt) == [path |-> path, by |-> by, alt |-> alt]

(***************************************************************************)
(* The device: its flash, as the bytes written so far (a byte never        *)
(* written reads as 0), and its option bytes, as the image last written.   *)
(* A write into a write-protected sector changes nothing and reports no    *)
(* error.                                                                  *)
(***************************************************************************)
SectorOf(a) == (a - FLASH_START_ADDRESS) \div FLASH_PROTECT_SECTOR_SIZE

\* WRPROT1 guards sectors 0..31, WRPROT2 sectors 32..47
SectorProtected(img, s) ==
    IF s <= 31 THEN WordBit(DecodeOptionWord(img, 1), s) = 1
    ELSE WordBit(DecodeOptionWord(img, 2), s - 32) = 1

ReadFlash(mem, a, n) ==
    [i \in 1..n |-> IF (a + i - 1) \in DOMAIN mem THEN mem[a + i - 1] ELSE 0]

WriteFlash(mem, img, a, d) ==
    LET w == {x \in a..(a + Len(d) - 1) : ~SectorProtected(img, SectorOf(x))}
    IN  [x \in (DOMAIN mem) \cup w |-> IF x \in w THEN d[x - a + 1] ELSE mem[x]]

(***************************************************************************)
(* State.                                                                  *)
(***************************************************************************)
VARIABLES
    pc,            \* where the running process is; "idle": none runs
    run,           \* processes started so far
    args,          \* the parsed command line
    DFU_UTIL_0_9,  \* the module global: "None", "True" or "False"
    app_key,       \* main: the generated key
    flash,         \* main: the generated block
    option,        \* main: the encoded option bytes
    data,          \* program_flash: the padded payload
    address,       \* program_flash: the aligned address
    ops,           \* the external processes this run has run, with their results
    log,           \* what this run has logged
    error,         \* the exception that ended the try block, or "None"
    exit_status,   \* the exit status of the process, -1 while it runs
    dev_flash,     \* the device's flash
    dev_option,    \* the device's option bytes
    files,         \* the files that exist, as pairs of path and contents
    dirs,          \* the temporary directories that exist
    tmp_made,      \* the temporary files and directories this process has made
    calc           \* a function of the program applied on its own to an input

program == << pc, run, args, DFU_UTIL_0_9, app_key, flash, option, data, address,
              ops, log, error, exit_status, dev_flash, dev_option,
              files, dirs, tmp_made >>

vars == << program, calc >>

locals == << app_key, flash, option, data, address >>
device == << dev_flash, dev_option >>
fs == << files, dirs, tmp_made >>

NoArgs ==
    [board |-> "other", id |-> 0,
     skip_flash |-> FALSE, skip_register |-> FALSE, unprotect |-> FALSE,
     flash_filename |-> "", option_filename |-> ""]

\* no function is applied on its own while the program runs
NoCalc == [fn |-> "none", input |-> << >>, done |-> FALSE, output |-> << >>]

ProgramInit ==
    /\ pc = "idle"
    /\ run = 0
    /\ args = NoArgs
    /\ DFU_UTIL_0_9 = "None"
    /\ app_key = << >>
    /\ flash = << >>
    /\ option = << >>
    /\ data = << >>
    /\ address = 0
    /\ ops = << >>
    /\ log = << >>
    /\ error = "None"
    /\ exit_status = -1
    /\ dev_flash = << >>
    /\ dev_option = encode_option_bytes(OPTION_BYTES_DEFAULT)
    /\ files = {}
    /\ dirs = {}
    /\ tmp_made = << >>

Init ==
    /\ ProgramInit
    /\ calc = NoCalc

(***************************************************************************)
(* A new process: argparse has accepted the command line.                  *)
(***************************************************************************)
StartRun ==
    /\ pc = "idle"
    /\ run < MaxRuns
    /\ run' = run + 1
    /\ \E a \in Args : args' = a
    /\ pc' = "detect"
    /\ UNCHANGED << calc, fs, DFU_UTIL_0_9, locals, ops, log, error, exit_status, device >>

(***************************************************************************)
(* Logging and the commands.                                               *)
(***************************************************************************)
LogRunning(cmd) == [level |-> "INFO", msg |-> "Running", cmd |-> cmd]
LogNotRunning(cmd) == [level |-> "INFO", msg |-> "Not running", cmd |-> cmd]
LogWarning == [level |-> "WARNING", msg |-> "Ignoring error from dfu-util", cmd |-> << >>]
LogError(e) == [level |-> "ERROR", msg |-> e, cmd |-> << >>]

\* not DFU_UTIL_0_9 / DFU_UTIL_0_9 as a condition
Truthy(v) == v = "True"

\* check_dfu_version: output.startswith('dfu-util 0.9')
\* the prefix test the wrong way round
check_dfu_version_Inverted(output) == IF StartsWith(output, LegacyPrefix) THEN "False" ELSE "True"

check_dfu_version(output) == IF StartsWith(output, LegacyPrefix) THEN "True" ELSE "False"

VersionCmd == <<"dfu-util", "--version">>

\* mutant: the marker whenever a reset is expected, whatever the version
DownloadAddrArg_MarkerAlways(addr, will_reset, v09) ==
    IF will_reset THEN <<addr, ":will-reset">> ELSE <<addr>>

\* addr_arg of program_dfu: hex(address), with ":will-reset" when asked for
DownloadAddrArg(addr, will_reset, v09) ==
    IF will_reset /\ ~Truthy(v09) THEN <<addr, ":will-reset">> ELSE <<addr>>

DownloadCmd(alt, addr, will_reset, v09, name) ==
    <<"dfu-util", "-a", alt, "--dfuse-address", DownloadAddrArg(addr, will_reset, v09),
      "-D", name>>

\* addr_arg of verify_dfu: hex(address) + ':' + hex(len(data))
UploadAddrArg(addr, d) == <<addr, ":", Len(d)>>

UploadCmd(alt, addr, d, name) ==
    <<"dfu-util", "-a", alt, "--dfuse-address", UploadAddrArg(addr, d), "-U", name>>

RegisterCmd(app_id, dev_id, app_eui, dev_eui, key, frequency_plan, version, phy) ==
    <<"ttn-lw-cli", "end-devices", "create",
      "--application-id", app_id, "--device-id", dev_id,
      "--dev-eui", hex_eui(dev_eui), "--root-keys.app-key.key", Hex(key),
      "--join-eui", Hex(app_eui), "--lorawan-version", version,
      "--lorawan-phy-version", phy, "--frequency-plan-id", frequency_plan>>

\* program_dfu: does it capture and inspect the output of dfu-util
CapturesOutput(will_reset, v09) == will_reset /\ Truthy(v09)

\* mutant: the exit status alone decides
IgnoredFailure_StatusOnly(rc, out) == rc = LEGACY_RESET_STATUS

\* program_dfu: the failure of dfu-util 0.9 that is ignored
IgnoredFailure(rc, out) == rc = LEGACY_RESET_STATUS /\ Contains(out, LegacyResetWords)

\* mutant: the exit status is never checked
DownloadAccepted_Unchecked(will_reset, v09, rc, out) == TRUE

\* program_dfu: does the call return (rather than raise)
DownloadAccepted(will_reset, v09, rc, out) ==
    IF CapturesOutput(will_reset, v09)
        THEN IgnoredFailure(rc, out) \/ rc = 0
        ELSE rc = 0

\* what one external process did
Op(kind, cmd, payload, rc, out) ==
    [kind |-> kind, cmd |-> cmd, payload |-> payload, rc |-> rc, out |-> out]

(***************************************************************************)
(* main, lines 313-315: detect the dfu-util version, unless flashing is    *)
(* skipped.  subprocess.run(check=True) raises on a non-zero exit status.  *)
(***************************************************************************)
DetectVersion ==
    /\ pc = "detect"
    /\ IF ~args.skip_flash /\ DFU_UTIL_0_9 = "None"
       THEN \E rc \in ExitCodes, out \in VersionOutputs :
               /\ ops' = Append(ops, Op("version", VersionCmd, << >>, rc, out))
               /\ IF rc = 0
                  THEN /\ DFU_UTIL_0_9' = check_dfu_version(out)
                       /\ pc' = "branch"
                       /\ error' = error
                  ELSE /\ DFU_UTIL_0_9' = DFU_UTIL_0_9
                       /\ pc' = "error"
                       /\ error' = "VersionQueryFailed"
       ELSE /\ pc' = "branch"
            /\ UNCHANGED << DFU_UTIL_0_9, ops, error >>
    /\ UNCHANGED << calc, fs, run, args, locals, log, exit_status, device >>

(***************************************************************************)
(* main, lines 317-319: the unprotect branch encodes the unprotected       *)
(* option bytes.                                                           *)
(***************************************************************************)
EncodeUnprotected ==
    /\ pc = "branch"
    /\ args.unprotect
    /\ option' = encode_option_bytes(OPTION_BYTES_UNPROTECTED)
    /\ pc' = "option"
    /\ UNCHANGED << calc, fs, run, args, DFU_UTIL_0_9, app_key, flash, data, address,
                    ops, log, error, exit_status, device >>

(***************************************************************************)
(* main, lines 322-336: the normal branch draws a key and generates the    *)
(* flash block.                                                            *)
(***************************************************************************)
\* generate_flash is pure: the blocks of the runs' inputs, each computed once
GeneratedBlocks ==
    { << b, id, k, generate_flash(APP_EUI, id, k, BOARDS[b].board_id,
                                  BOARDS[b].board_version) >> :
        b \in BoardNames, id \in Ids, k \in Keys }

\* main, lines 330-335: the block for a board name, an id and a key
FlashFor(board, id, key) ==
    (CHOOSE t \in GeneratedBlocks : t[1] = board /\ t[2] = id /\ t[3] = key)[4]

GenerateFlash ==
    /\ pc = "branch"
    /\ ~args.unprotect
    /\ \E k \in Keys :
          /\ app_key' = k
          /\ flash' = FlashFor(args.board, args.id, k)
    /\ pc' = "align"
    /\ UNCHANGED << calc, fs, run, args, DFU_UTIL_0_9, option, data, address,
                    ops, log, error, exit_status, device >>

(***************************************************************************)
(* main, line 343, and program_flash, lines 125-127: place the block at    *)
(* the end of the flash and align the write.                               *)
(***************************************************************************)
FlashOffset(block) == FLASH_SIZE - Len(block)

\* pads up to the next boundary instead of down to the last one
Padding_ToNext(offset) == FLASH_ALIGN - (offset % FLASH_ALIGN)

Padding(offset) == offset % FLASH_ALIGN

PaddedData(block, offset) == [i \in 1..Padding(offset) |-> 0] \o block

\* the padding is prepended but the address is not moved back
AlignedAddress_Unpadded(offset) == FLASH_START_ADDRESS + offset

AlignedAddress(offset) == FLASH_START_ADDRESS + offset - Padding(offset)

AlignFlash ==
    /\ pc = "align"
    /\ data' = PaddedData(flash, FlashOffset(flash))
    /\ address' = AlignedAddress(FlashOffset(flash))
    /\ pc' = "flash_write"
    /\ UNCHANGED << calc, fs, run, args, DFU_UTIL_0_9, app_key, flash, option,
                    ops, log, error, exit_status, device >>

(***************************************************************************)
(* program_dfu: one download.  With noop the command is only logged.       *)
(* Otherwise dfu-util runs: a download the program accepts has reached the *)
(* device, one it rejects may or may not have.  The program sees the       *)
(* output of dfu-util only when it captures it.                            *)
(***************************************************************************)
DeviceAfterDownload(alt, d, addr, applied) ==
    /\ dev_flash' = IF applied /\ alt = DFU_FLASH_ALT
                    THEN WriteFlash(dev_flash, dev_option, addr, d)
                    ELSE dev_flash
    /\ dev_option' = IF applied /\ alt = DFU_OPTION_ALT THEN d ELSE dev_option

\* the file is opened, written and flushed before anything else, and closed
\* when the with block is left, whichever way; dfu-util sends what the file
\* holds
program_dfu(alt, d, addr, filename, noop, will_reset, next) ==
    LET name == StagingFile(filename)
        written == WriteFile(files, name, d)
        sent == ReadFile(written, name)
        cmd == DownloadCmd(alt, addr, will_reset, DFU_UTIL_0_9, name)
    IN  /\ files' = CloseStaging(written, name, IsTemporary(filename))
        /\ tmp_made' = IF IsTemporary(filename)
                       THEN Append(tmp_made, Made(name, "program_dfu", alt))
                       ELSE tmp_made
        /\ dirs' = dirs
        /\ IF noop
           THEN /\ log' = Append(log, LogNotRunning(cmd))
                /\ pc' = next
                /\ UNCHANGED << ops, error, device >>
           ELSE \E rc \in ExitCodes, out \in DownloadOutputs, applied \in BOOLEAN :
                   LET ok == DownloadAccepted(will_reset, DFU_UTIL_0_9, rc, out)
                       warn == CapturesOutput(will_reset, DFU_UTIL_0_9) /\ IgnoredFailure(rc, out)
                   IN  /\ ok => applied
                       /\ ops' = Append(ops, Op("download", cmd, sent, rc, out))
                       /\ log' = IF warn
                                 THEN Append(Append(log, LogRunning(cmd)), LogWarning)
                                 ELSE Append(log, LogRunning(cmd))
                       /\ DeviceAfterDownload(alt, sent, addr, applied)
                       /\ IF ok
                          THEN pc' = next /\ error' = error
                          ELSE pc' = "error" /\ error' = "TransportFailure"

(***************************************************************************)
(* program_flash, lines 128-130: download the padded block, and verify     *)
(* unless flashing is skipped.                                             *)
(***************************************************************************)
\* mutant: the verification is left out
AfterFlashDownload_NoVerify(skip_flash) == "protect"

\* mutant: the verification also runs when flashing is skipped
AfterFlashDownload_AlwaysVerify(skip_flash) == "verify"

AfterFlashDownload(skip_flash) == IF skip_flash THEN "protect" ELSE "verify"

ProgramFlash ==
    /\ pc = "flash_write"
    /\ program_dfu(DFU_FLASH_ALT, data, address, args.flash_filename, args.skip_flash, FALSE,
                   AfterFlashDownload(args.skip_flash))
    /\ UNCHANGED << calc, run, args, DFU_UTIL_0_9, locals, exit_status >>

(***************************************************************************)
(* verify_dfu: upload len(data) bytes from the address and compare.        *)
(***************************************************************************)
\* mutant: the comparison never fails
ReadBackMatches_Always(read_back, d) == TRUE

\* verify_dfu, line 246: read_back != data raises
ReadBackMatches(read_back, d) == read_back = d

\* dfu-util writes verify.bin into a fresh directory, the program reads
\* it, and the directory goes with all it holds when the with block is left
verify_dfu(alt, d, addr) ==
    LET filename == VerifyFilename
        cmd == UploadCmd(alt, addr, d, filename)
    IN  \E rc \in ExitCodes :
            LET uploaded == IF rc = 0
                            THEN WriteFile(files, filename,
                                           ReadFlash(dev_flash, cmd[5][1], cmd[5][3]))
                            ELSE files
                read_back == IF rc = 0 THEN ReadFile(uploaded, filename) ELSE << >>
            IN  /\ files' = RemoveFile(uploaded, filename)
                /\ dirs' = CleanupDirectory(dirs \cup {TemporaryDirectory}, TemporaryDirectory)
                /\ tmp_made' = Append(tmp_made, Made(TemporaryDirectory, "verify_dfu", alt))
                /\ ops' = Append(ops, Op("upload", cmd, read_back, rc, << >>))
                /\ log' = Append(log, LogRunning(cmd))
                /\ IF rc # 0
                   THEN pc' = "error" /\ error' = "TransportFailure"
                   ELSE IF ~ReadBackMatches(read_back, d)
                   THEN pc' = "error" /\ error' = "VerificationFailed"
                   ELSE pc' = "protect" /\ error' = error

VerifyFlash ==
    /\ pc = "verify"
    /\ verify_dfu(DFU_FLASH_ALT, data, address)
    /\ UNCHANGED << calc, run, args, DFU_UTIL_0_9, locals, exit_status, device >>

(***************************************************************************)
(* main, lines 348-349: encode the protected option bytes.                 *)
(***************************************************************************)
EncodeProtected ==
    /\ pc = "protect"
    /\ option' = encode_option_bytes(OPTION_BYTES_PROTECTED)
    /\ pc' = "option"
    /\ UNCHANGED << calc, fs, run, args, DFU_UTIL_0_9, app_key, flash, data, address,
                    ops, log, error, exit_status, device >>

(***************************************************************************)
(* program_option_bytes: download the option bytes; the board resets.      *)
(***************************************************************************)
\* mutant: the registration also follows in an unprotect run
AfterOptionBytes_AlwaysRegister(unprotect) == "register"

AfterOptionBytes(unprotect) == IF unprotect THEN "finish" ELSE "register"

ProgramOptionBytes ==
    /\ pc = "option"
    /\ program_dfu(DFU_OPTION_ALT, option, OPTION_START_ADDRESS, args.option_filename,
                   args.skip_flash, TRUE,
                   AfterOptionBytes(args.unprotect))
    /\ UNCHANGED << calc, run, args, DFU_UTIL_0_9, locals, exit_status >>

(***************************************************************************)
(* register_device: run ttn-lw-cli, or only log the command.               *)
(***************************************************************************)
register_device(skip_register, app_id, dev_id, app_eui, dev_eui, key, frequency_plan, version, phy) ==
    LET cmd == RegisterCmd(app_id, dev_id, app_eui, dev_eui, key,
                           frequency_plan, version, phy)
    IN  IF skip_register
        THEN /\ log' = Append(log, LogNotRunning(cmd))
             /\ pc' = "finish"
             /\ UNCHANGED << ops, error >>
        ELSE \E rc \in ExitCodes :
                /\ ops' = Append(ops, Op("register", cmd, << >>, rc, << >>))
                /\ log' = Append(log, LogRunning(cmd))
                /\ IF rc = 0
                   THEN pc' = "finish" /\ error' = error
                   ELSE pc' = "error" /\ error' = "RegistrationFailure"

RegisterDevice ==
    /\ pc = "register"
    /\ register_device(args.skip_register, APP_ID, DeviceId(args.id), APP_EUI, args.id,
                       app_key, FREQUENCY_PLAN, LORAWAN_VERSION, LORAWAN_PHY_VERSION)
    /\ UNCHANGED << calc, fs, run, args, DFU_UTIL_0_9, locals, exit_status, device >>

(***************************************************************************)
(* main, lines 366-373: the try block ends, or the handler logs the        *)
(* exception; either way main returns and the interpreter exits.           *)
(***************************************************************************)
ExitStatusAfterMain(e) == 0

Finish ==
    /\ pc = "finish"
    /\ pc' = "exited"
    /\ exit_status' = ExitStatusAfterMain(error)
    /\ UNCHANGED << calc, fs, run, args, DFU_UTIL_0_9, locals, ops, log, error, device >>

HandleError ==
    /\ pc = "error"
    /\ log' = Append(log, LogError(error))
    /\ pc' = "exited"
    /\ exit_status' = ExitStatusAfterMain(error)
    /\ UNCHANGED << calc, fs, run, args, DFU_UTIL_0_9, locals, ops, error, device >>

(***************************************************************************)
(* The process is gone: its memory and its output go with it, the device   *)
(* stays as it is.                                                         *)
(***************************************************************************)
ProcessGone ==
    /\ pc = "exited"
    /\ pc' = "idle"
    /\ args' = NoArgs
    /\ DFU_UTIL_0_9' = "None"
    /\ app_key' = << >>
    /\ flash' = << >>
    /\ option' = << >>
    /\ data' = << >>
    /\ address' = 0
    /\ ops' = << >>
    /\ log' = << >>
    /\ error' = "None"
    /\ exit_status' = -1
    /\ tmp_made' = << >>
    /\ UNCHANGED << calc, run, device, files, dirs >>

Next ==
    \/ StartRun
    \/ DetectVersion
    \/ EncodeUnprotected
    \/ GenerateFlash
    \/ AlignFlash
    \/ ProgramFlash
    \/ VerifyFlash
    \/ EncodeProtected
    \/ ProgramOptionBytes
    \/ RegisterDevice
    \/ Finish
    \/ HandleError
    \/ ProcessGone

Spec == Init /\ [][Next]_vars

(***************************************************************************)
(* One process started with any of the file name options, on a device that *)
(* is fresh or was provisioned by an earlier run.                          *)
(***************************************************************************)
\* the device after "--board other --id 42" with the key KeyOf(0) succeeded
ProvisionedFlash ==
    LET block == FlashFor("other", 42, KeyOf(0))
    IN  WriteFlash(<< >>, encode_option_bytes(OPTION_BYTES_DEFAULT),
                   AlignedAddress(FlashOffset(block)), PaddedData(block, FlashOffset(block)))

FilesInit ==
    /\ pc = "idle"
    /\ run = 0
    /\ args = NoArgs
    /\ DFU_UTIL_0_9 = "None"
    /\ app_key = << >>
    /\ flash = << >>
    /\ option = << >>
    /\ data = << >>
    /\ address = 0
    /\ ops = << >>
    /\ log = << >>
    /\ error = "None"
    /\ exit_status = -1
    /\ \/ dev_flash = << >> /\ dev_option = encode_option_bytes(OPTION_BYTES_DEFAULT)
       \/ dev_flash = ProvisionedFlash /\ dev_option = encode_option_bytes(OPTION_BYTES_PROTECTED)
    /\ files = {}
    /\ dirs = {}
    /\ tmp_made = << >>
    /\ calc = NoCalc

StartRunWithFiles ==
    /\ pc = "idle"
    /\ run = 0
    /\ run' = run + 1
    /\ \E a \in ArgsWithFiles : args' = a
    /\ pc' = "detect"
    /\ UNCHANGED << calc, fs, DFU_UTIL_0_9, locals, ops, log, error, exit_status, device >>

FilesNext ==
    \/ StartRunWithFiles
    \/ DetectVersion
    \/ EncodeUnprotected
    \/ GenerateFlash
    \/ AlignFlash
    \/ ProgramFlash
    \/ VerifyFlash
    \/ EncodeProtected
    \/ ProgramOptionBytes
    \/ RegisterDevice
    \/ Finish
    \/ HandleError
    \/ ProcessGone

FilesSpec == FilesInit /\ [][FilesNext]_vars

(***************************************************************************)
(* The functions of the program applied on their own.  An input is drawn   *)
(* from a bounded set, the function is applied once, and calc keeps the    *)
(* input next to the output.  No process runs meanwhile.                   *)
(***************************************************************************)
CalcInput(fn, input) == [fn |-> fn, input |-> input, done |-> FALSE, output |-> << >>]

\* payloads to align: byte strings without a zero byte
SampleData == {[i \in 1..n |-> 255 - i] : n \in {0, 1, BLOCK_SIZE}}

AlignInputs ==
    {CalcInput("program_flash", [offset |-> o, flash |-> d]) :
        o \in (0..MaxOffset) \cup {FLASH_SIZE - BLOCK_SIZE, FLASH_SIZE - 1},
        d \in SampleData}

\* geometries whose last sector is 0 .. 63
GeometryInputs ==
    {CalcInput("OPTION_BYTES_PROTECTED", [size |-> n * s, sector |-> s]) :
        n \in 1..64, s \in {FLASH_PROTECT_SECTOR_SIZE, 2 * FLASH_PROTECT_SECTOR_SIZE}}

\* 32-bit words
SampleWords ==
    {Word(0, 0), Word(65535, 65535), Word(32886, 170), Word(0, 32768),
     Word(1, 65534), Word(4660, 22136)}

WordSeqs == UNION {[1..n -> SampleWords] : n \in 0..MaxWords}

EncodeInputs == {CalcInput("encode_option_bytes", w) : w \in WordSeqs}

\* station ids whose EUI has one, two and four non-zero bytes
SampleIds == {0, 42, 65535, 2147483647}

GenerateInputs ==
    {CalcInput("generate_flash", [board |-> b, id |-> i, key |-> k]) :
        b \in DOMAIN BOARDS, i \in SampleIds, k \in Keys}

CalcInputs == AlignInputs \cup GeometryInputs \cup EncodeInputs \cup GenerateInputs

CalcInit ==
    /\ ProgramInit
    /\ calc \in CalcInputs

CalcDone(out) == calc' = [calc EXCEPT !.done = TRUE, !.output = out]

\* program_flash, lines 125-127
CalcAlign ==
    /\ calc.fn = "program_flash"
    /\ ~calc.done
    /\ CalcDone([padding |-> Padding(calc.input.offset),
                 data |-> PaddedData(calc.input.flash, calc.input.offset),
                 address |-> AlignedAddress(calc.input.offset)])
    /\ UNCHANGED program

\* lines 39 and 51-54 for a geometry
CalcProtected ==
    /\ calc.fn = "OPTION_BYTES_PROTECTED"
    /\ ~calc.done
    /\ CalcDone(OptionBytesProtected(ProtectedSector(calc.input.size, calc.input.sector)))
    /\ UNCHANGED program

\* encode_option_bytes
CalcEncode ==
    /\ calc.fn = "encode_option_bytes"
    /\ ~calc.done
    /\ CalcDone(encode_option_bytes(calc.input))
    /\ UNCHANGED program

\* generate_flash as main calls it, lines 333-341, and the serialization
\* before the checksum is filled in
CalcGenerate ==
    /\ calc.fn = "generate_flash"
    /\ ~calc.done
    /\ CalcDone([flash |-> generate_flash(APP_EUI, calc.input.id, calc.input.key,
                                          BOARDS[calc.input.board].board_id,
                                          BOARDS[calc.input.board].board_version),
                 binary_before_crc |-> PackBlock(<<0, 0, 0, 0>>,
                                          BOARDS[calc.input.board].board_id,
                                          BOARDS[calc.input.board].board_version,
                                          APP_EUI, calc.input.id, calc.input.key)])
    /\ UNCHANGED program

CalcNext ==
    \/ CalcAlign
    \/ CalcProtected
    \/ CalcEncode
    \/ CalcGenerate

CalcSpec == CalcInit /\ [][CalcNext]_vars

(***************************************************************************)
(* What the properties below speak of.  They read the run's record of      *)
(* external processes (ops) and judge it by what the processes answered.   *)
(***************************************************************************)
InRun == pc # "idle"

\* the region of a download or upload: the -a argument
OpRegion(o) == IF o.kind \in {"download", "upload"} THEN o.cmd[3] ELSE "-"

\* the address argument of a download or upload
OpAddrArg(o) == o.cmd[5]

OpLabel(o) == << o.kind, OpRegion(o) >>

OpLabels == [i \in 1..Len(ops) |-> OpLabel(ops[i])]

OpsOf(kind, region) ==
    {i \in 1..Len(ops) : ops[i].kind = kind /\ OpRegion(ops[i]) = region}

\* the version query of this run answered with a 0.9 version string
DetectedLegacy ==
    /\ Len(ops) > 0
    /\ ops[1].kind = "version"
    /\ ops[1].rc = 0
    /\ StartsWith(ops[1].out, LegacyPrefix)

\* the version query of this run answered with another version string
DetectedCurrent ==
    /\ Len(ops) > 0
    /\ ops[1].kind = "version"
    /\ ops[1].rc = 0
    /\ ~StartsWith(ops[1].out, LegacyPrefix)

\* exit status 74 with the get_status line in the output
BenignReset(o) == o.rc = 74 /\ Contains(o.out, LegacyResetWords)

\* the step failed, by what the external process answered
StepFailed(i) ==
    LET o == ops[i]
    IN  CASE o.kind = "version" -> o.rc # 0
          [] o.kind = "download" ->
                /\ o.rc # 0
                /\ ~(OpRegion(o) = DFU_OPTION_ALT /\ DetectedLegacy /\ BenignReset(o))
          [] o.kind = "upload" -> o.rc # 0 \/ o.payload # ops[i - 1].payload
          [] o.kind = "register" -> o.rc # 0

\* the program went on after step i
WentOn(i) == i < Len(ops) \/ error = "None"

\* the option images, byte by byte
UnprotectedImage ==
    << 170, 0, 85, 255, 118, 128, 137, 127,
       0, 0, 255, 255, 0, 0, 255, 255,
       0, 0, 255, 255, 0, 0, 255, 255 >>

ProtectedImage ==
    << 170, 0, 85, 255, 118, 128, 137, 127,
       0, 0, 255, 255, 0, 0, 255, 255,
       0, 128, 255, 127, 0, 0, 255, 255 >>

\* the block is the tail of the payload, the rest is zero
CarriesBlock(payload, block) ==
    /\ Len(payload) >= Len(block)
    /\ SubSeq(payload, Len(payload) - Len(block) + 1, Len(payload)) = block
    /\ \A k \in 1..(Len(payload) - Len(block)) : payload[k] = 0

(***************************************************************************)
(* C1: in a normal run the external operations occur only in the order     *)
(* version query, storage download, storage upload, option download of the *)
(* protected image, registration, less the ones a dry-run flag suppresses; *)
(* none is invoked before the ones ahead of it have succeeded, and a run   *)
(* that ends without error has invoked them all.                           *)
(***************************************************************************)
NormalOrder(a) ==
    (IF a.skip_flash THEN << >>
     ELSE << <<"version", "-">>, <<"download", DFU_FLASH_ALT>>,
             <<"upload", DFU_FLASH_ALT>>, <<"download", DFU_OPTION_ALT>> >>)
    \o (IF a.skip_register THEN << >> ELSE << <<"register", "-">> >>)

C1_NormalRunOrder ==
    (InRun /\ ~args.unprotect) =>
        /\ Len(ops) <= Len(NormalOrder(args))
        /\ OpLabels = SubSeq(NormalOrder(args), 1, Len(ops))
        /\ \A i \in 1..(Len(ops) - 1) : ~StepFailed(i)
        /\ \A i \in OpsOf("download", DFU_FLASH_ALT) : CarriesBlock(ops[i].payload, flash)
        /\ \A i \in OpsOf("download", DFU_OPTION_ALT) :
              /\ ops[i].payload = ProtectedImage
              /\ OpAddrArg(ops[i])[1] = OPTION_START_ADDRESS
        /\ (pc \in {"finish", "exited"} /\ error = "None") =>
              OpLabels = NormalOrder(args)

C1_Witness ==
    /\ pc = "finish"
    /\ ~args.unprotect /\ ~args.skip_flash /\ ~args.skip_register
    /\ Len(ops) = 5
    /\ ops[5].kind = "register"

(***************************************************************************)
(* C2: once a step of a run has failed, the run invokes no further         *)
(* external operation, and no operation is invoked twice in a run.         *)
(***************************************************************************)
C2_FailureEndsRun ==
    InRun =>
        /\ \A i \in 1..Len(ops) :
              StepFailed(i) =>
                  /\ i = Len(ops)
                  /\ error # "None"
                  /\ pc \in {"error", "exited"}
        /\ \A i, j \in 1..Len(ops) : OpLabels[i] = OpLabels[j] => i = j

C2_Witness ==
    /\ pc = "exited"
    /\ ~args.unprotect /\ ~args.skip_register
    /\ Len(ops) = 3
    /\ ops[3].kind = "upload"
    /\ StepFailed(3)

(***************************************************************************)
(* C3: a run that ends because of an error reports the error and exits     *)
(* with a non-zero status; status 0 is reached only by runs in which no    *)
(* step failed.                                                            *)
(***************************************************************************)
ErrorReported == \E k \in 1..Len(log) : log[k].level = "ERROR"

C3_ErrorExitsNonZero ==
    pc = "exited" =>
        /\ error # "None" => (ErrorReported /\ exit_status # 0)
        /\ exit_status = 0 => \A i \in 1..Len(ops) : ~StepFailed(i)

(***************************************************************************)
(* C4: an option download under dfu-util 0.9 succeeds with a warning       *)
(* exactly when it exits with 74 and its output holds the get_status       *)
(* line, succeeds without warning when it exits with 0, and fails          *)
(* otherwise; every other download succeeds exactly when it exits with 0,  *)
(* and never warns.                                                        *)
(***************************************************************************)
UnderShim(o) == OpRegion(o) = DFU_OPTION_ALT /\ DetectedLegacy

Warnings == {k \in 1..Len(log) : log[k].level = "WARNING"}

C4_LegacyShim ==
    InRun =>
        /\ \A i \in 1..Len(ops) :
              ops[i].kind = "download" =>
                  IF UnderShim(ops[i])
                  THEN WentOn(i) <=> (ops[i].rc = 0 \/ BenignReset(ops[i]))
                  ELSE WentOn(i) <=> ops[i].rc = 0
        /\ Cardinality(Warnings) =
              Cardinality({i \in 1..Len(ops) :
                              /\ ops[i].kind = "download"
                              /\ UnderShim(ops[i])
                              /\ BenignReset(ops[i])})
        /\ \A i \in 1..Len(ops) :
              (ops[i].kind = "download" /\ ~WentOn(i)) => error = "TransportFailure"

\* the shim has let a reset failure pass, and registration is next
C4_Witness ==
    /\ pc = "register"
    /\ Len(ops) = 4
    /\ UnderShim(ops[4])
    /\ BenignReset(ops[4])
    /\ Warnings # {}

(***************************************************************************)
(* C5: a storage write is aligned, written, and then read back: the upload *)
(* asks for len(data) bytes at the address written, and a difference is a  *)
(* VerificationFailed; an option write is written and never read back.     *)
(***************************************************************************)
C5_WriteStateMachine ==
    InRun =>
        /\ \A i \in OpsOf("download", DFU_FLASH_ALT) :
              /\ OpAddrArg(ops[i]) = << address >>
              /\ address % FLASH_ALIGN = 0
              /\ ops[i].payload = data
              /\ (i < Len(ops)) => ops[i + 1].kind = "upload"
              /\ (i = Len(ops)) => pc \in {"verify", "error", "exited"}
        /\ \A i \in 1..Len(ops) :
              ops[i].kind = "upload" =>
                  /\ i > 1
                  /\ OpLabel(ops[i - 1]) = << "download", DFU_FLASH_ALT >>
                  /\ OpRegion(ops[i]) = DFU_FLASH_ALT
                  /\ OpAddrArg(ops[i]) =
                        << OpAddrArg(ops[i - 1])[1], ":", Len(ops[i - 1].payload) >>
                  /\ ops[i].rc = 0 => Len(ops[i].payload) = Len(data)
                  /\ (ops[i].rc = 0 /\ ops[i].payload # data)
                        <=> (error = "VerificationFailed")
                  /\ (ops[i].rc = 0 /\ ops[i].payload = data) <=> WentOn(i)
        /\ pc = "verify" =>
              (Len(ops) > 0 /\ OpLabel(ops[Len(ops)]) = << "download", DFU_FLASH_ALT >>)
        /\ \A i \in OpsOf("download", DFU_OPTION_ALT) :
              /\ OpAddrArg(ops[i])[1] = OPTION_START_ADDRESS
              /\ OPTION_START_ADDRESS % FLASH_ALIGN = 0
              /\ ops[i].payload = option
              /\ (i < Len(ops)) => ops[i + 1].kind # "upload"
              /\ (i = Len(ops)) => pc \in {"register", "finish", "error", "exited"}
        /\ OpsOf("upload", DFU_OPTION_ALT) = {}

\* a read-back that differs from what was written
C5_Witness ==
    /\ error = "VerificationFailed"
    /\ Len(ops) = 3
    /\ ops[3].kind = "upload"
    /\ ops[3].rc = 0
    /\ ops[3].payload # ops[2].payload

(***************************************************************************)
(* C6: an unprotect run, whatever its other flags, writes nothing but the  *)
(* 24 bytes of the unprotected option image to the option bytes; it builds *)
(* no block, touches no flash and registers nothing.                       *)
(***************************************************************************)
C6_UnprotectOnlyOptionBytes ==
    (InRun /\ args.unprotect) =>
        /\ \A i \in 1..Len(ops) :
              /\ ops[i].kind \in {"version", "download"}
              /\ ops[i].kind = "download" =>
                    /\ OpRegion(ops[i]) = DFU_OPTION_ALT
                    /\ OpAddrArg(ops[i])[1] = OPTION_START_ADDRESS
                    /\ ops[i].payload = UnprotectedImage
                    /\ Len(ops[i].payload) = 24
        /\ Cardinality(OpsOf("download", DFU_OPTION_ALT)) <= 1
        /\ \A k \in 1..Len(log) :
              log[k].cmd # << >> =>
                  (log[k].cmd[1] = "dfu-util" /\ log[k].cmd[3] = DFU_OPTION_ALT)
        /\ flash = << >> /\ data = << >> /\ app_key = << >>
        /\ option \in {<< >>, UnprotectedImage}
        /\ (pc \in {"finish", "exited"} /\ error = "None") =>
              (option = UnprotectedImage /\ (~args.skip_flash => Len(ops) = 2))

\* an unprotect run with both dry-run flags clear has written the image
C6_Witness ==
    /\ pc = "finish"
    /\ args.unprotect /\ ~args.skip_flash /\ ~args.skip_register
    /\ Len(ops) = 2
    /\ ops[2].payload = UnprotectedImage
    /\ dev_option = UnprotectedImage

(***************************************************************************)
(* C7 as stated: in every run the registration call is invoked only after  *)
(* the block has been written to the flash and verified and the protected  *)
(* option image has been committed, so that the device is provisioned      *)
(* whatever becomes of the registration.                                   *)
(***************************************************************************)
\* the registration call is about to be made, or has been made
RegistrationInvoked ==
    \/ pc = "register" /\ ~args.skip_register
    \/ \E i \in 1..Len(ops) : ops[i].kind = "register"

\* the block is written and verified, the protected image is committed
DeviceProvisioned ==
    /\ \E j \in OpsOf("download", DFU_FLASH_ALT) :
          /\ ~StepFailed(j)
          /\ CarriesBlock(ops[j].payload, flash)
          /\ j < Len(ops)
          /\ ops[j + 1].kind = "upload"
          /\ ops[j + 1].rc = 0
          /\ ops[j + 1].payload = ops[j].payload
          /\ ReadFlash(dev_flash, OpAddrArg(ops[j])[1], Len(ops[j].payload)) = ops[j].payload
    /\ \E k \in OpsOf("download", DFU_OPTION_ALT) :
          /\ ~StepFailed(k)
          /\ ops[k].payload = ProtectedImage
    /\ dev_option = ProtectedImage
    /\ SectorProtected(dev_option, PROTECTED_SECTOR)

C7_RegistrationAfterCommit ==
    (InRun /\ RegistrationInvoked) => DeviceProvisioned

(***************************************************************************)
(* C7, amended: in every run that does not skip flashing, the registration *)
(* call is invoked only after the block has been written to the flash and  *)
(* verified and the protected option image has been committed.             *)
(***************************************************************************)
C7_RegistrationAfterCommitUnlessSkipped ==
    (InRun /\ RegistrationInvoked /\ ~args.skip_flash) => DeviceProvisioned

\* a failed registration on a provisioned device
C7_Witness ==
    /\ error = "RegistrationFailure"
    /\ ~args.skip_flash
    /\ DeviceProvisioned

(***************************************************************************)
(* C8: the two dry-run flags act independently.  With --skip-flash no      *)
(* dfu-util process runs at all, and the registration runs or not by       *)
(* --skip-register alone; with --skip-register no registration runs, and   *)
(* the dfu-util processes run or not by --skip-flash alone.                *)
(***************************************************************************)
OpKinds == {ops[i].kind : i \in 1..Len(ops)}

TransportKinds == {"version", "download", "upload"}

C8_IndependentDryRun ==
    InRun =>
        /\ args.skip_flash => OpKinds \cap TransportKinds = {}
        /\ args.skip_register => "register" \notin OpKinds
        \* the registration goes by --skip-register alone
        /\ (~args.unprotect /\ pc \in {"finish", "exited"}
              /\ (args.skip_flash \/ error \in {"None", "RegistrationFailure"})) =>
              ("register" \in OpKinds <=> ~args.skip_register)
        \* the transport goes by --skip-flash alone
        /\ pc # "detect" => ("version" \in OpKinds <=> ~args.skip_flash)
        /\ pc \in {"register", "finish"} =>
              ("download" \in OpKinds <=> ~args.skip_flash)
        /\ (pc \in {"register", "finish"} /\ ~args.unprotect) =>
              ("upload" \in OpKinds <=> ~args.skip_flash)

\* flashing skipped, registration not: only the registration has run
C8_Witness ==
    /\ pc = "finish"
    /\ args.skip_flash /\ ~args.skip_register /\ ~args.unprotect
    /\ Len(ops) = 1
    /\ ops[1].kind = "register"

\* registration skipped, flashing not: only the transport has run
C8_WitnessSkipRegister ==
    /\ pc = "finish"
    /\ ~args.skip_flash /\ args.skip_register /\ ~args.unprotect
    /\ Len(ops) = 4

(***************************************************************************)
(* C9 as stated: a run in which a dry-run flag is set ends without         *)
(* TransportFailure, VerificationFailed and RegistrationFailure.           *)
(***************************************************************************)
C9_DryRunNeverFails ==
    (InRun /\ (args.skip_flash \/ args.skip_register)) =>
        error \notin {"TransportFailure", "VerificationFailed", "RegistrationFailure"}

(***************************************************************************)
(* C9, amended: a dry-run flag keeps off the errors of the calls it        *)
(* suppresses.  With --skip-flash a run ends without TransportFailure and  *)
(* VerificationFailed, with --skip-register without RegistrationFailure,   *)
(* with both without any of the three; the suppressed commands are only    *)
(* reported.                                                               *)
(***************************************************************************)
LoggedAs(msg, tool) ==
    {k \in 1..Len(log) : log[k].msg = msg /\ log[k].cmd # << >> /\ log[k].cmd[1] = tool}

C9_DryRunSuppressedErrors ==
    InRun =>
        /\ args.skip_flash =>
              /\ error \notin {"VersionQueryFailed", "TransportFailure", "VerificationFailed"}
              /\ LoggedAs("Running", "dfu-util") = {}
        /\ args.skip_register =>
              /\ error # "RegistrationFailure"
              /\ LoggedAs("Running", "ttn-lw-cli") = {}
        /\ (args.skip_flash /\ args.skip_register) =>
              /\ error = "None"
              /\ ops = << >>
              /\ \A k \in 1..Len(log) : log[k].msg = "Not running"
        /\ (args.skip_flash /\ pc = "finish") =>
              Cardinality(LoggedAs("Not running", "dfu-util")) =
                  (IF args.unprotect THEN 1 ELSE 2)
        /\ (args.skip_register /\ ~args.unprotect /\ pc = "finish") =>
              Cardinality(LoggedAs("Not running", "ttn-lw-cli")) = 1

\* a full dry run has reported its three commands and run none
C9_Witness ==
    /\ pc = "exited"
    /\ args.skip_flash /\ args.skip_register /\ ~args.unprotect
    /\ Len(log) = 3
    /\ exit_status = 0

(***************************************************************************)
(* C10: an executed download carries the ":will-reset" marker exactly when *)
(* it goes to the option bytes and the detected dfu-util is not 0.9; and   *)
(* with such a dfu-util every non-zero exit status of a download fails the *)
(* run.                                                                    *)
(***************************************************************************)
HasMarker(o) == Len(OpAddrArg(o)) = 2 /\ OpAddrArg(o)[2] = ":will-reset"

C10_WillResetMarker ==
    InRun =>
        \A i \in 1..Len(ops) :
            ops[i].kind = "download" =>
                /\ DetectedLegacy \/ DetectedCurrent
                /\ HasMarker(ops[i]) <=>
                      (OpRegion(ops[i]) = DFU_OPTION_ALT /\ DetectedCurrent)
                /\ ~HasMarker(ops[i]) => Len(OpAddrArg(ops[i])) = 1
                /\ (DetectedCurrent /\ ops[i].rc # 0) =>
                      /\ i = Len(ops)
                      /\ error = "TransportFailure"
                      /\ pc \in {"error", "exited"}

\* an option download with the marker that failed with status 74
C10_Witness ==
    /\ DetectedCurrent
    /\ Len(ops) = 4
    /\ HasMarker(ops[4])
    /\ BenignReset(ops[4])
    /\ error = "TransportFailure"

\* an option download without the marker, under dfu-util 0.9
C10_WitnessLegacy ==
    /\ DetectedLegacy
    /\ Len(ops) = 4
    /\ OpRegion(ops[4]) = DFU_OPTION_ALT
    /\ ~HasMarker(ops[4])


(***************************************************************************)
(* The functions on their own (CalcSpec).                                  *)
(***************************************************************************)
Applied(fn) == calc.fn = fn /\ calc.done

ZeroBytes(n) == [i \in 1..n |-> 0]

\* C13: for every offset and payload program_flash is applied to, the
\* padding is the offset modulo FLASH_ALIGN and lies in 0 .. FLASH_ALIGN - 1,
\* the written address is the (aligned) base plus the offset minus the
\* padding and is a multiple of FLASH_ALIGN, the payload is that many zero
\* bytes followed by the unchanged data, so its length is the padding plus
\* the data's length and the first data byte lands at base + offset.
C13_AlignedWrite ==
    Applied("program_flash") =>
        LET offset == calc.input.offset
            block == calc.input.flash
            pad == calc.output.padding
            sent == calc.output.data
            addr == calc.output.address
        IN  /\ pad \in 0..(FLASH_ALIGN - 1)
            /\ offset = (offset \div FLASH_ALIGN) * FLASH_ALIGN + pad
            /\ FLASH_START_ADDRESS % FLASH_ALIGN = 0
            /\ addr = FLASH_START_ADDRESS + offset - pad
            /\ addr % FLASH_ALIGN = 0
            /\ Len(sent) = pad + Len(block)
            /\ SubSeq(sent, 1, pad) = ZeroBytes(pad)
            /\ SubSeq(sent, pad + 1, Len(sent)) = block
            /\ addr + pad = FLASH_START_ADDRESS + offset

\* the block's offset in main: 80 bytes of padding before 48 bytes of data
C13_Witness ==
    /\ Applied("program_flash")
    /\ calc.input.offset = FLASH_SIZE - BLOCK_SIZE
    /\ Len(calc.input.flash) = BLOCK_SIZE
    /\ calc.output.padding = 80
    /\ Len(calc.output.data) = FLASH_ALIGN

\* the bits in which two 32-bit words differ
DifferingBits(w, u) == {k \in 0..31 : WordBit(w, k) # WordBit(u, k)}

\* C14: for every geometry whose last sector S = floor(size / sector) - 1
\* lies in 0 .. 63, the protected preset differs from OPTION_BYTES_UNPROTECTED
\* in exactly one bit, which is set: bit S of word 1 when S <= 31, bit S - 32
\* of word 2 when S >= 32, never both; word 0 and every other bit are the
\* same.  For the configured geometry S is 47 and the bit is bit 15 of
\* word 2.
C14_OneProtectionBit ==
    Applied("OPTION_BYTES_PROTECTED") =>
        LET S == (calc.input.size \div calc.input.sector) - 1
            P == calc.output
            U == OPTION_BYTES_UNPROTECTED
        IN  /\ S \in 0..63
            /\ Len(P) = 3
            /\ P[1] = U[1]
            /\ IF S <= 31
               THEN /\ DifferingBits(P[2], U[2]) = {S}
                    /\ WordBit(P[2], S) = 1
                    /\ P[3] = U[3]
               ELSE /\ DifferingBits(P[3], U[3]) = {S - 32}
                    /\ WordBit(P[3], S - 32) = 1
                    /\ P[2] = U[2]
            /\ (calc.input.size = 192 * 1024 /\ calc.input.sector = 4096) =>
                  /\ S = 47
                  /\ P = OPTION_BYTES_PROTECTED
                  /\ DifferingBits(P[3], U[3]) = {15}

C14_Witness ==
    /\ Applied("OPTION_BYTES_PROTECTED")
    /\ calc.input.size = FLASH_SIZE
    /\ calc.input.sector = FLASH_PROTECT_SECTOR_SIZE
    /\ WordBit(calc.output[3], 15) = 1
    /\ calc.output[2] = Word(0, 0)

\* the i-th little-endian 16-bit unit of a byte string, i from 1
Unit16(bytes, i) == bytes[2 * i - 1] + 256 * bytes[2 * i]

\* C15: for every sequence of 32-bit words, the empty one included,
\* encode_option_bytes emits for each word, in order, four little-endian
\* 16-bit units: the low half, its complement (low XOR 0xFFFF), the high
\* half and its complement; the output is 8 * Len(words) bytes long, and the
\* first and third unit of a word's group put together give the word back.
C15_OptionEncoding ==
    Applied("encode_option_bytes") =>
        LET words == calc.input
            out == calc.output
        IN  /\ Len(out) = 8 * Len(words)
            /\ \A i \in 1..Len(out) : out[i] \in 0..255
            /\ \A j \in 1..Len(words) :
                  LET g == 4 * (j - 1)
                  IN  /\ Unit16(out, g + 1) = words[j].lo
                      /\ Unit16(out, g + 2) = 65535 - words[j].lo
                      /\ Unit16(out, g + 3) = words[j].hi
                      /\ Unit16(out, g + 4) = 65535 - words[j].hi
                      /\ Word(Unit16(out, g + 3), Unit16(out, g + 1)) = words[j]

\* two words, the first 0x807600AA: AA 00 55 FF 76 80 89 7F, then 8 more
C15_Witness ==
    /\ Applied("encode_option_bytes")
    /\ Len(calc.input) = 2
    /\ calc.input[1] = Word(32886, 170)
    /\ SubSeq(calc.output, 1, 8) = <<170, 0, 85, 255, 118, 128, 137, 127>>

\* the big-endian number held by bytes a .. b of a byte string
RECURSIVE FieldBE(_, _, _)
FieldBE(bytes, a, b) == IF b < a THEN 0 ELSE 256 * FieldBE(bytes, a, b - 1) + bytes[b]

\* C16 as stated: the encoded block is 60 bytes long for every valid input,
\* and the total_size stored in it is that length.
C16_BlockLength60 ==
    Applied("generate_flash") =>
        /\ Len(calc.output.flash) = 60
        /\ FieldBE(calc.output.flash, 43, 44) = Len(calc.output.flash)

\* C16, amended: for every board, station id and 16-byte key the encoded
\* block is 48 bytes long, the sum of the widths of its fields (crc 4,
\* board_id 1, board_version 1, app_eui 8, dev_eui 8, app_key 16,
\* segment_size 2, segment_type 2, total_size 2, magic 4), the serialization
\* with a zero crc has the same length, and the total_size field (the 43rd
\* and 44th byte, big-endian) holds that length.
C16_BlockLength48 ==
    Applied("generate_flash") =>
        /\ Len(calc.input.key) = 16
        /\ Len(calc.output.flash) = 48
        /\ Len(calc.output.flash) = 4 + 1 + 1 + 8 + 8 + 16 + 2 + 2 + 2 + 4
        /\ Len(calc.output.binary_before_crc) = Len(calc.output.flash)
        /\ FieldBE(calc.output.flash, 43, 44) = Len(calc.output.flash)
        /\ FieldBE(calc.output.flash, 39, 40) = 1 + 1 + 8 + 8 + 16 + 2 + 2

C16_Witness ==
    /\ Applied("generate_flash")
    /\ calc.input.id = 42
    /\ calc.input.board = "mjs2020-proto4"
    /\ Len(calc.output.flash) = 48
    /\ SubSeq(calc.output.flash, 43, 44) = <<0, 48>>

\* C17: for every board, station id and key, the first four bytes of the
\* final block (the crc field) are the CRC-32C of all the bytes after them,
\* and of nothing else: not of the whole block, and not of the whole
\* zero-crc serialization; the bytes after the crc field are the same in the
\* final block and in the zero-crc serialization that was checksummed, whose
\* crc field is zero.
C17_CrcOverRest ==
    Applied("generate_flash") =>
        LET final == calc.output.flash
            zeroed == calc.output.binary_before_crc
            rest == SubSeq(final, CRC_SIZE + 1, Len(final))
        IN  /\ SubSeq(final, 1, CRC_SIZE) = crc32c(rest)
            /\ SubSeq(final, 1, CRC_SIZE) # crc32c(final)
            /\ SubSeq(final, 1, CRC_SIZE) # crc32c(zeroed)
            /\ SubSeq(zeroed, 1, CRC_SIZE) = <<0, 0, 0, 0>>
            /\ SubSeq(zeroed, CRC_SIZE + 1, Len(zeroed)) = rest
            /\ Len(zeroed) = Len(final)

\* board "other", station 42, key 01 02 .. 10: the crc is 23 B0 8B F9
C17_Witness ==
    /\ Applied("generate_flash")
    /\ calc.input = [board |-> "other", id |-> 42, key |-> KeyOf(0)]
    /\ SubSeq(calc.output.flash, 1, 4) = <<35, 176, 139, 249>>
    /\ SubSeq(calc.output.flash, 5, 22) =
          <<0, 0>> \o APP_EUI \o <<0, 0, 0, 0, 0, 0, 0, 42>>

(***************************************************************************)
(* The program as a whole (Spec), continued.                               *)
(***************************************************************************)
VersionOps == {i \in 1..Len(ops) : ops[i].kind = "version"}

\* what the version query of this run detected, "None" without one
Detected ==
    IF DetectedLegacy THEN "True" ELSE IF DetectedCurrent THEN "False" ELSE "None"

C11_Cached ==
    InRun =>
        /\ Cardinality(VersionOps) <= 1
        /\ VersionOps \subseteq {1}
        /\ \A i \in 1..Len(ops) :
              ops[i].kind \in {"download", "upload"} =>
                  /\ VersionOps = {1}
                  /\ ops[1].rc = 0
                  /\ DFU_UTIL_0_9 # "None"
                  /\ ops[i].kind = "download" =>
                        (HasMarker(ops[i]) <=>
                            (OpRegion(ops[i]) = DFU_OPTION_ALT /\ DFU_UTIL_0_9 = "False"))
        /\ DFU_UTIL_0_9 = Detected

C11_Written ==
    (DFU_UTIL_0_9' # DFU_UTIL_0_9 /\ pc' # "idle") =>
        /\ DFU_UTIL_0_9 = "None"
        /\ ops = << >>
        /\ Len(ops') = 1
        /\ ops'[1].kind = "version"

\* C11: within one process the version query runs at most once, as the
\* first external process and so before any download or upload; the cached
\* flag DFU_UTIL_0_9 is written at most once, by the step that runs the
\* query, and keeps its value from then on; it is the value the query
\* detected, and every executed download is built from it.
C11_VersionDetectedOnce == []C11_Cached /\ [][C11_Written]_vars

\* a run under dfu-util 0.9 that has programmed flash and option bytes
C11_Witness ==
    /\ DFU_UTIL_0_9 = "True"
    /\ VersionOps = {1}
    /\ OpsOf("download", DFU_FLASH_ALT) # {}
    /\ OpsOf("download", DFU_OPTION_ALT) # {}
    /\ pc = "finish"

\* reading text back: a hex digit, a hex string, a decimal string
DigitValue(c) == CHOOSE d \in 0..15 : HexDigits[d + 1] = c

UnHex(chars) ==
    [i \in 1..(Len(chars) \div 2) |->
        16 * DigitValue(chars[2 * i - 1]) + DigitValue(chars[2 * i])]

RECURSIVE DecimalValue(_)
DecimalValue(chars) ==
    IF chars = << >> THEN 0
    ELSE 10 * DecimalValue(SubSeq(chars, 1, Len(chars) - 1)) + DigitValue(chars[Len(chars)])

\* the blocks of this run: the generated one and the ones sent to storage
BlocksOfRun ==
    {flash} \cup
    {SubSeq(ops[j].payload, Len(ops[j].payload) - 47, Len(ops[j].payload)) :
        j \in OpsOf("download", DFU_FLASH_ALT)}

C18_SameIdentity ==
    (InRun /\ ~args.unprotect) =>
        /\ \A j \in OpsOf("download", DFU_FLASH_ALT) : Len(ops[j].payload) >= 48
        /\ \A i \in 1..Len(ops) :
              ops[i].kind = "register" =>
                  LET c == ops[i].cmd
                  IN  /\ Cardinality(BlocksOfRun) = 1
                      /\ \A b \in BlocksOfRun :
                            /\ c[8] = "--dev-eui"
                            /\ UnHex(c[9]) = SubSeq(b, 15, 22)
                            /\ c[10] = "--root-keys.app-key.key"
                            /\ UnHex(c[11]) = SubSeq(b, 23, 38)
                            /\ UnHex(c[11]) = app_key
                            /\ c[12] = "--join-eui"
                            /\ UnHex(c[13]) = SubSeq(b, 7, 14)
                            /\ c[6] = "--device-id"
                            /\ Head(c[7]) = "meetstation-"
                            /\ Len(c[7]) > 1
                            /\ DecimalValue(Tail(c[7])) = FieldBE(b, 15, 22)
                            /\ DecimalValue(Tail(c[7])) = args.id
                            /\ Len(c[7]) > 2 => c[7][2] # "0"

C18_KeyKept ==
    (app_key # << >> /\ pc' # "idle") => app_key' = app_key

\* C18: in every normal run the device EUI, the join EUI and the
\* application key given to the registration call are the ones encoded in
\* the block generated, and written to storage, in that run; the key is
\* generated once and stays as it is until the process ends; the device id
\* is "meetstation-" followed by the decimal station id, the number that is
\* also the device EUI.
C18_RegisteredAsWritten == []C18_SameIdentity /\ [][C18_KeyKept]_vars

\* station 42 written, protected and registered
C18_Witness ==
    /\ pc = "finish"
    /\ ~args.unprotect
    /\ OpsOf("download", DFU_FLASH_ALT) = {2}
    /\ Len(ops) = 5
    /\ ops[5].kind = "register"
    /\ ops[5].rc = 0
    /\ ops[5].cmd[7] = <<"meetstation-", "4", "2">>
    /\ ops[5].cmd[9] =
          <<"0", "0", "0", "0", "0", "0", "0", "0", "0", "0", "0", "0", "0", "0", "2", "a">>
    /\ app_key = KeyOf(1)

\* the sectors an option image write-protects, by the image's bits
ProtectedSectors(img) ==
    {k \in 0..31 : WordBit(DecodeOptionWord(img, 1), k) = 1}
    \cup {32 + k : k \in {b \in 0..31 : WordBit(DecodeOptionWord(img, 2), b) = 1}}

DeviceBlock ==
    LET a == FLASH_START_ADDRESS + FLASH_SIZE - 48
    IN  [i \in 1..48 |-> IF (a + i - 1) \in DOMAIN dev_flash THEN dev_flash[a + i - 1] ELSE 0]

DeviceKey == SubSeq(DeviceBlock, 23, 38)

DeviceProtected == 47 \in ProtectedSectors(dev_option)

\* a normal run whose storage download and upload both reported success
WroteAndReadBack ==
    /\ InRun
    /\ ~args.unprotect
    /\ Len(ops) >= 3
    /\ ops[2].kind = "download"
    /\ ops[2].rc = 0
    /\ ops[3].kind = "upload"
    /\ ops[3].rc = 0

TemporaryPaths == {NamedTemporaryFile, VerifyFilename}

\* the file name option that goes with a region
FilenameFor(alt) == IF alt = DFU_FLASH_ALT THEN args.flash_filename ELSE args.option_filename

\* what the program stages for a region
StagedFor(alt) == IF alt = DFU_FLASH_ALT THEN data ELSE option

\* the download commands of this run for a region, run or only logged
DownloadCalls(alt) ==
    {ops[i].cmd : i \in OpsOf("download", alt)}
    \cup {log[k].cmd : k \in {q \in LoggedAs("Not running", "dfu-util") : log[q].cmd[3] = alt}}

MadeBy(by, alt) == {m \in 1..Len(tmp_made) : tmp_made[m].by = by /\ tmp_made[m].alt = alt}

\* C12: whenever a write or verify call has returned or raised (that is,
\* between any two steps: after success, a dry run, a transport failure, the
\* ignored failure of dfu-util 0.9, a verification mismatch) no temporary
\* file or directory the program made exists.  With a file name given for a
\* region, the write to that region makes no temporary file, passes that
\* path to dfu-util, and leaves at that path a file holding exactly the
\* bytes dfu-util was given; without one, dfu-util is given a temporary
\* file.  The upload always goes to a file in a temporary directory.
C12_NoStagingLeftBehind ==
    /\ \A e \in files : e[1] \notin TemporaryPaths
    /\ dirs = {}
    /\ InRun =>
          /\ \A alt \in {DFU_FLASH_ALT, DFU_OPTION_ALT} :
                IF FilenameFor(alt) # ""
                THEN /\ MadeBy("program_dfu", alt) = {}
                     /\ \A c \in DownloadCalls(alt) : c[6] = "-D" /\ c[7] = FilenameFor(alt)
                     /\ DownloadCalls(alt) # {} =>
                           {e \in files : e[1] = FilenameFor(alt)}
                               = {<<FilenameFor(alt), StagedFor(alt)>>}
                     /\ \A i \in OpsOf("download", alt) :
                           <<FilenameFor(alt), ops[i].payload>> \in files
                ELSE /\ \A c \in DownloadCalls(alt) : c[6] = "-D" /\ c[7] = NamedTemporaryFile
                     /\ Cardinality(MadeBy("program_dfu", alt)) = Cardinality(DownloadCalls(alt))
          /\ \A i \in OpsOf("upload", DFU_FLASH_ALT) :
                /\ ops[i].cmd[7] = VerifyFilename
                /\ MadeBy("verify_dfu", DFU_FLASH_ALT) # {}

\* a verification mismatch with --flash-filename: the directory is gone,
\* flash.bin is there with the bytes that were sent
C12_Witness ==
    /\ pc = "exited"
    /\ error = "VerificationFailed"
    /\ args.flash_filename = "flash.bin"
    /\ files = {<<"flash.bin", ops[2].payload>>}
    /\ Len(ops[2].payload) = 128
    /\ MadeBy("verify_dfu", DFU_FLASH_ALT) = {1}
    /\ dirs = {}

\* the ignored failure of dfu-util 0.9 on the option bytes, staged in a
\* temporary file that is gone
C12_WitnessTemporary ==
    /\ pc = "finish"
    /\ args.option_filename = ""
    /\ args.flash_filename = ""
    /\ Warnings # {}
    /\ Len(tmp_made) = 3
    /\ files = {}

====
